---- MODULE Spec2Model ----
(***************************************************************************)
(* Board synchronisation of the kanban task manager: the in-memory board   *)
(* (columns, tasks, subtasks) held by the TaskManager component, the       *)
(* remote store reached through blink.db, the drag-and-drop handlers, the  *)
(* task mutators of TaskManager and TaskDetailDrawer, and the requests     *)
(* that are in flight between the two.                                     *)
(*                                                                         *)
(* Every handler is one action up to its first await; the continuation     *)
(* after the await is part of the action that completes the request.       *)
(* Strings that the code parses (the JSON text of a task's tags) are       *)
(* sequences of one-character strings.                                     *)
(***************************************************************************)
EXTENDS Integers, Sequences, FiniteSets, TLC

\* ------------------------------------------------------------------ bounds
\* number of requests (board selections and mutations) the user issues
MaxOps == 2
\* number of tasks createTask makes
MaxCreate == 1
\* number of requests (writes and loads) that are in flight at a time
MaxInFlight == 2
\* number of tags a draft tag list holds, and the length of one tag
MaxTags == 2
MaxTagLen == 2

\* ------------------------------------------------------------- identifiers
None == "none"
Boards == {"b1", "b2"}
\* ids of the tasks createTask makes (`task_${Date.now()}`), in order
TaskPool == <<"t3", "t4", "t5", "t6">>
TaskIds == {"t0", "t1", "t2"} \cup {TaskPool[i] : i \in 1..Len(TaskPool)}
\* ids of the subtasks addSubtask makes (`subtask_${Date.now()}`), in order
SubPool == <<"s3", "s4", "s5", "s6">>
SubIds == {"s0", "s1", "s2"} \cup {SubPool[i] : i \in 1..Len(SubPool)}

\* ----------------------------------------------------- JSON text of tags
\* characters a tag is made of in the model: a letter, and the three
\* characters the encoding has to treat specially
TagChars == {"a", ",", "\"", "\\"}
\* the stored value of a task without tags (null / undefined)
NullText == <<"null">>
\* a stored tag text that is not JSON
Malformed == <<"[", "a">>

\* an escaping that leaves the double quote alone
RECURSIVE EscapeNoQuote(_)
EscapeNoQuote(s) ==
  IF s = <<>> THEN <<>>
  ELSE (IF Head(s) = "\\" THEN <<"\\", "\\">> ELSE <<Head(s)>>)
       \o EscapeNoQuote(Tail(s))

\* the escaping JSON.stringify applies inside a string literal
RECURSIVE Escape(_)
Escape(s) ==
  IF s = <<>> THEN <<>>
  ELSE (IF Head(s) \in {"\"", "\\"} THEN <<"\\", Head(s)>> ELSE <<Head(s)>>)
       \o Escape(Tail(s))

Quote(s) == <<"\"">> \o Escape(s) \o <<"\"">>

RECURSIVE JoinQuoted(_)
JoinQuoted(l) ==
  IF l = <<>> THEN <<>>
  ELSE IF Len(l) = 1 THEN Quote(l[1])
  ELSE Quote(l[1]) \o <<",">> \o JoinQuoted(Tail(l))

\* JSON.stringify of an array of strings
JSONstringify(l) == <<"[">> \o JoinQuoted(l) \o <<"]">>

\* the characters of a JSON string literal that starts after the opening
\* quote at position i: [ok, val, next], next being the position after the
\* closing quote
RECURSIVE ParseChars(_, _, _)
ParseChars(s, i, acc) ==
  IF i > Len(s) THEN [ok |-> FALSE, val |-> <<>>, next |-> i]
  ELSE IF s[i] = "\"" THEN [ok |-> TRUE, val |-> acc, next |-> i + 1]
  ELSE IF s[i] = "\\"
       THEN IF i + 1 <= Len(s) /\ s[i + 1] \in {"\"", "\\"}
            THEN ParseChars(s, i + 2, Append(acc, s[i + 1]))
            ELSE [ok |-> FALSE, val |-> <<>>, next |-> i]
  ELSE ParseChars(s, i + 1, Append(acc, s[i]))

\* the elements of a JSON array from position i, a string literal expected
RECURSIVE ParseElems(_, _, _)
ParseElems(s, i, acc) ==
  IF i > Len(s) \/ s[i] /= "\"" THEN [ok |-> FALSE, val |-> <<>>]
  ELSE LET r == ParseChars(s, i + 1, <<>>) IN
       IF ~r.ok \/ r.next > Len(s) THEN [ok |-> FALSE, val |-> <<>>]
       ELSE IF s[r.next] = "]"
            THEN [ok |-> r.next = Len(s), val |-> Append(acc, r.val)]
       ELSE IF s[r.next] = ","
            THEN ParseElems(s, r.next + 1, Append(acc, r.val))
       ELSE [ok |-> FALSE, val |-> <<>>]

\* JSON.parse of a text, for the texts that are arrays of strings; ok is
\* FALSE where JSON.parse throws a SyntaxError
JSONparse(s) ==
  IF Len(s) < 2 \/ s[1] /= "[" THEN [ok |-> FALSE, val |-> <<>>]
  ELSE IF s = <<"[", "]">> THEN [ok |-> TRUE, val |-> <<>>]
  ELSE ParseElems(s, 2, <<>>)

\* `task.tags ? ... : []`: null, undefined and '' are falsy
Truthy(s) == s /= NullText /\ s /= <<>>

\* the tags of a fetched task as loadBoardData decodes them
DecodeTags(s) == IF Truthy(s) THEN JSONparse(s) ELSE [ok |-> TRUE, val |-> <<>>]

\* the tag strings of at most MaxTagLen characters
RECURSIVE SeqsUpTo(_, _)
SeqsUpTo(S, n) ==
  IF n = 0 THEN {<<>>}
  ELSE LET P == SeqsUpTo(S, n - 1) IN
       P \cup {Append(p, c) : p \in {q \in P : Len(q) = n - 1}, c \in S}

TagStrings == SeqsUpTo(TagChars, MaxTagLen) \ {<<>>}

Distinct(l) == \A i, j \in 1..Len(l) : i /= j => l[i] /= l[j]

\* the lists a draft can hold: addTag appends a tag that is not yet in it
TagLists == {l \in SeqsUpTo(TagStrings, MaxTags) : Distinct(l)}

\* ------------------------------------------------------------------- state
VARIABLES
  dbColumns,    \* remote store: the column records
  dbTasks,      \* remote store: task id -> task record (tags as JSON text)
  dbSubtasks,   \* remote store: subtask id -> subtask record
  currentBoard, \* TaskManager state: id of the selected board
  columns,      \* TaskManager state: cached columns, in position order
  tasks,        \* TaskManager state: task id -> cached task (tags decoded)
  subtasks,     \* TaskManager state: subtask id -> cached subtask
  activeId,     \* TaskManager state: id of the task being dragged, or None
  over,         \* the droppable the drag layer reports under the pointer
  dragFrom,     \* the cached column of the dragged task at gesture start
  selectedTask, \* TaskManager state: the task object given to the drawer
  isEditing,    \* TaskDetailDrawer state
  dTitle,       \* TaskDetailDrawer state: title
  dTags,        \* TaskDetailDrawer state: tags
  writes,       \* store writes awaited by a handler
  loads,        \* loadBoardData calls awaiting Promise.all
  nextReq,      \* number of requests issued so far
  nextTask,     \* number of task ids createTask has generated
  nextSub,      \* number of subtask ids addSubtask has generated
  dbBoards,     \* remote store: the ids of the user's boards, oldest first
  inits,        \* initializeUserBoard calls awaiting the store
  form,         \* QuickAddTask state, or NoForm when the form is not shown
  lastEvent     \* the handler step the client ran last, and its toast

cache == <<columns, tasks, subtasks>>
session == <<dbBoards, inits, form>>
store == <<dbColumns, dbTasks, dbSubtasks>>
drawer == <<selectedTask, isEditing, dTitle, dTags>>
vars == <<dbColumns, dbTasks, dbSubtasks, currentBoard, columns, tasks,
          subtasks, activeId, over, dragFrom, selectedTask, isEditing,
          dTitle, dTags, writes, loads, nextReq, nextTask, nextSub, dbBoards,
          inits, form, lastEvent>>

EmptyFn == [x \in {} |-> 0]
NoTask == [id |-> None]
NoForm == [open |-> FALSE]
Titles == {"A", "B", " "}
\* the tags the user types into the drawer's tag input
TypedTags == {<<"a">>, <<"\"">>}

Ev(op, task, col, toast, origin) ==
  [op |-> op, task |-> task, col |-> col, toast |-> toast, origin |-> origin]

\* ------------------------------------------------------------ remote store
\* list({where: {boardId}, orderBy: {position: 'asc'}}) on columns
RECURSIVE SortByPosition(_)
SortByPosition(S) ==
  IF S = {} THEN <<>>
  ELSE LET m == CHOOSE c \in S : \A d \in S : c.position <= d.position
       IN <<m>> \o SortByPosition(S \ {m})

ListColumns(boardId) == SortByPosition({c \in dbColumns : c.boardId = boardId})

\* list({where: {boardId}}) on tasks
ListTasks(boardId) ==
  LET ids == {t \in DOMAIN dbTasks : dbTasks[t].boardId = boardId}
  IN [t \in ids |-> dbTasks[t]]

\* list() on subtasks: no filter
ListSubtasks == dbSubtasks

\* ------------------------------------------------------------ loadBoardData
NewLoad(id, boardId, origin, task) ==
  [id |-> id, board |-> boardId, origin |-> origin, task |-> task,
   phase |-> "sent", cols |-> <<>>, tks |-> EmptyFn, sts |-> EmptyFn]

\* the store answers the three list queries of Promise.all
LoadRead(l) ==
  /\ l \in loads /\ l.phase = "sent"
  /\ loads' = (loads \ {l}) \cup
       {[l EXCEPT !.phase = "read", !.cols = ListColumns(l.board),
                  !.tks = ListTasks(l.board), !.sts = ListSubtasks]}
  /\ UNCHANGED <<session, store, currentBoard, cache, activeId, over, dragFrom,
                 drawer, writes,
                 nextReq, nextTask, nextSub, lastEvent>>

\* a query rejects: the catch block raises the toast, no setter has run
LoadFail(l) ==
  /\ l \in loads /\ l.phase = "sent"
  /\ loads' = loads \ {l}
  /\ lastEvent' = Ev("loadFail", l.task, None, "Loading Error", l.origin)
  /\ UNCHANGED <<session, store, currentBoard, cache, activeId, over, dragFrom,
                 drawer, writes,
                 nextReq, nextTask, nextSub>>

\* the mapping of setTasks: every task with its tags decoded
DecodeAllOk(tks) == \A t \in DOMAIN tks : DecodeTags(tks[t].tags).ok
\* a merge that keeps the cached column of the task being dragged
DecodeAllKeepDragged(tks) ==
  [t \in DOMAIN tks |->
     [tks[t] EXCEPT !.tags = DecodeTags(tks[t].tags).val,
                    !.columnId = IF t = activeId /\ t \in DOMAIN tasks
                                 THEN tasks[t].columnId
                                 ELSE tks[t].columnId]]

DecodeAll(tks) ==
  [t \in DOMAIN tks |-> [tks[t] EXCEPT !.tags = DecodeTags(tks[t].tags).val]]

\* a loader that drops the response when a later request has been issued
LoadReturnNewest(l) ==
  /\ l \in loads /\ l.phase = "read"
  /\ loads' = loads \ {l}
  /\ IF l.id >= nextReq /\ DecodeAllOk(l.tks)
     THEN /\ columns' = l.cols
          /\ tasks' = DecodeAll(l.tks)
          /\ subtasks' = l.sts
     ELSE UNCHANGED cache
  /\ lastEvent' = Ev("loadReturn", l.task, None, None, l.origin)
  /\ UNCHANGED <<session,
                 store, currentBoard, activeId, over, dragFrom, drawer, writes,
                 nextReq, nextTask, nextSub>>

\* Promise.all resolves: setColumns, setTasks(map ...), setSubtasks; a
\* JSON.parse that throws inside the map leaves setColumns done and goes to
\* the catch block
LoadReturn(l) ==
  /\ l \in loads /\ l.phase = "read"
  /\ loads' = loads \ {l}
  /\ columns' = l.cols
  /\ IF DecodeAllOk(l.tks)
     THEN /\ tasks' = DecodeAll(l.tks)
          /\ subtasks' = l.sts
          /\ lastEvent' = Ev("loadReturn", l.task, None, None, l.origin)
     ELSE /\ UNCHANGED <<tasks, subtasks>>
          /\ lastEvent' = Ev("loadThrow", l.task, None, "Loading Error",
                             l.origin)
  /\ UNCHANGED <<session,
                 store, currentBoard, activeId, over, dragFrom, drawer, writes,
                 nextReq, nextTask, nextSub>>

\* the user can issue one more request
CanIssue ==
  nextReq < MaxOps /\ Cardinality(writes) + Cardinality(loads) < MaxInFlight

\* onClick of a board button: setCurrentBoard, then the effect on
\* [currentBoard] calls loadBoardData
SelectBoard(b) ==
  /\ activeId = None /\ CanIssue
  /\ b \in Boards /\ b /= currentBoard
  /\ currentBoard' = b
  /\ nextReq' = nextReq + 1
  /\ loads' = loads \cup {NewLoad(nextReq + 1, b, "select", None)}
  /\ lastEvent' = Ev("selectBoard", None, None, None, None)
  /\ UNCHANGED <<session,
                 store, cache, activeId, over, dragFrom, drawer, writes,
                 nextTask, nextSub>>

\* ------------------------------------------------------- initializeUserBoard
\* ids of the boards and columns initializeUserBoard makes
\* (`board_${Date.now()}`, `col_${Date.now()}_1` ...), by call
BoardPool == <<"b3", "b4", "b5", "b6">>
ColPool == <<<<"c4", "c5", "c6">>, <<"c7", "c8", "c9">>,
             <<"c10", "c11", "c12">>, <<"c13", "c14", "c15">>>>

\* a call that awaits boards.list
NewInit(id) == [id |-> id, pc |-> "list", board |-> None, n |-> 0]

\* onAuthStateChanged delivers the signed-in user: setUser with a new object,
\* and the effect on [user] calls initializeUserBoard(user.id)
authDelivers ==
  /\ nextReq < MaxOps
  /\ Cardinality(inits) + Cardinality(loads) < MaxInFlight
  /\ inits' = inits \cup {NewInit(nextReq + 1)}
  /\ nextReq' = nextReq + 1
  /\ lastEvent' = Ev("auth", None, None, None, None)
  /\ UNCHANGED <<store, dbBoards, form, currentBoard, cache, activeId, over,
                 dragFrom, drawer, writes, loads, nextTask, nextSub>>

\* setBoards(list), setCurrentBoard(list[0]): the board is a new object, so
\* the effect on [currentBoard] calls loadBoardData
SetCurrentBoard(i) ==
  /\ inits' = inits \ {i}
  /\ currentBoard' = dbBoards[1]
  /\ loads' = loads \cup {NewLoad(i.id, dbBoards[1], "select", None)}
  /\ lastEvent' = Ev("initDone", None, None, None, None)

\* boards.list resolves: with no board the call goes on to create one
InitListed(i) ==
  /\ i \in inits /\ i.pc = "list"
  /\ IF dbBoards = <<>>
     THEN /\ inits' = (inits \ {i}) \cup
               {[i EXCEPT !.pc = "board", !.board = BoardPool[i.id]]}
          /\ lastEvent' = Ev("initListed", None, None, None, None)
          /\ UNCHANGED <<currentBoard, loads>>
     ELSE SetCurrentBoard(i)
  /\ UNCHANGED <<store, dbBoards, form, cache, activeId, over, dragFrom,
                 drawer, writes, nextReq, nextTask, nextSub>>

\* boards.create resolves: the loop creates the first column
InitBoardCreated(i) ==
  /\ i \in inits /\ i.pc = "board"
  /\ dbBoards' = Append(dbBoards, i.board)
  /\ inits' = (inits \ {i}) \cup {[i EXCEPT !.pc = "col", !.n = 1]}
  /\ lastEvent' = Ev("initBoard", None, None, None, None)
  /\ UNCHANGED <<store, form, currentBoard, cache, activeId, over, dragFrom,
                 drawer, writes, loads, nextReq, nextTask, nextSub>>

\* columns.create resolves: the next column, or after the third the second
\* boards.list
InitColumnCreated(i) ==
  /\ i \in inits /\ i.pc = "col"
  /\ dbColumns' = dbColumns \cup
       {[id |-> ColPool[i.id][i.n], boardId |-> i.board, position |-> i.n - 1]}
  /\ inits' = (inits \ {i}) \cup
       {IF i.n < 3 THEN [i EXCEPT !.n = i.n + 1]
        ELSE [i EXCEPT !.pc = "relist"]}
  /\ lastEvent' = Ev("initColumn", None, None, None, None)
  /\ UNCHANGED <<dbTasks, dbSubtasks, dbBoards, form, currentBoard, cache,
                 activeId, over, dragFrom, drawer, writes, loads, nextReq,
                 nextTask, nextSub>>

\* the second boards.list resolves
InitRelisted(i) ==
  /\ i \in inits /\ i.pc = "relist"
  /\ SetCurrentBoard(i)
  /\ UNCHANGED <<store, dbBoards, form, cache, activeId, over, dragFrom,
                 drawer, writes, nextReq, nextTask, nextSub>>

\* the awaited request rejects: the catch block raises the toast and the
\* call ends
InitFail(i) ==
  /\ i \in inits
  /\ inits' = inits \ {i}
  /\ lastEvent' = Ev("initFail", None, None, "Setup Error", None)
  /\ UNCHANGED <<store, dbBoards, form, currentBoard, cache, activeId, over,
                 dragFrom, drawer, writes, loads, nextReq, nextTask, nextSub>>

\* ------------------------------------------------------------ drag and drop
ColumnIds == {columns[i].id : i \in 1..Len(columns)}

\* a card is rendered (and is a draggable and a droppable) when its column is
Rendered(t) == t \in DOMAIN tasks /\ tasks[t].columnId \in ColumnIds

Droppables == ColumnIds \cup {t \in DOMAIN tasks : Rendered(t)}

\* a gesture layer that lets a drag start while another one is going on
handleDragStartAny(t) ==
  /\ CanIssue
  /\ Rendered(t)
  /\ activeId' = t
  /\ over' = None
  /\ dragFrom' = tasks[t].columnId
  /\ lastEvent' = Ev("dragStart", t, None, None, None)
  /\ UNCHANGED <<session, store, currentBoard, cache, drawer, writes, loads,
                 nextReq, nextTask, nextSub>>

handleDragStart(t) ==
  /\ activeId = None /\ CanIssue
  /\ Rendered(t)
  /\ activeId' = t
  /\ over' = None
  /\ dragFrom' = tasks[t].columnId
  /\ lastEvent' = Ev("dragStart", t, None, None, None)
  /\ UNCHANGED <<session, store, currentBoard, cache, drawer, writes, loads,
                 nextReq, nextTask, nextSub>>

\* a hovered card resolved to the first column instead of the card's column
OverColumnFirst(overId) ==
  IF overId \in ColumnIds THEN overId
  ELSE IF columns /= <<>> THEN columns[1].id
  ELSE None

\* columns.find(col => col.id === overId) ||
\* columns.find(col => tasks.find(task => task.id === overId)?.columnId
\*                     === col.id)
OverColumn(overId) ==
  IF overId \in ColumnIds THEN overId
  ELSE IF overId \in DOMAIN tasks /\ tasks[overId].columnId \in ColumnIds
       THEN tasks[overId].columnId
  ELSE None

\* a drag-over that also puts the task at the end of the hovered column
handleDragOverAppend(o) ==
  /\ activeId /= None
  /\ o \in Droppables \cup {None}
  /\ over' = o
  /\ LET overColumn == OverColumn(o) IN
     IF \/ o = None
        \/ activeId \notin DOMAIN tasks
        \/ overColumn = None
        \/ tasks[activeId].columnId = overColumn
     THEN /\ UNCHANGED tasks
          /\ lastEvent' = Ev("dragOver", activeId, overColumn, None, "same")
     ELSE /\ tasks' = [tasks EXCEPT
                         ![activeId].columnId = overColumn,
                         ![activeId].position =
                            Cardinality({t \in DOMAIN tasks :
                                           tasks[t].columnId = overColumn})]
          /\ lastEvent' = Ev("dragOver", activeId, overColumn, None, "moved")
  /\ UNCHANGED <<session,
                 store, currentBoard, columns, subtasks, activeId, dragFrom,
                 drawer, writes, loads, nextReq, nextTask, nextSub>>

handleDragOver(o) ==
  /\ activeId /= None
  /\ o \in Droppables \cup {None}
  /\ over' = o
  /\ LET overColumn == OverColumn(o) IN
     IF \/ o = None
        \/ activeId \notin DOMAIN tasks
        \/ overColumn = None
        \/ tasks[activeId].columnId = overColumn
     THEN /\ UNCHANGED tasks
          /\ lastEvent' = Ev("dragOver", activeId, overColumn, None, "same")
     ELSE /\ tasks' = [tasks EXCEPT ![activeId].columnId = overColumn]
          /\ lastEvent' = Ev("dragOver", activeId, overColumn, None, "moved")
  /\ UNCHANGED <<session,
                 store, currentBoard, columns, subtasks, activeId, dragFrom,
                 drawer, writes, loads, nextReq, nextTask, nextSub>>

NewWrite(id, kind, task, columnId, position, title, tags) ==
  [id |-> id, kind |-> kind, task |-> task, columnId |-> columnId,
   position |-> position, title |-> title, tags |-> tags,
   board |-> currentBoard, live |-> TRUE, sub |-> None, completed |-> FALSE]

\* a drop that puts the task back into its start column when there is no
\* target
handleDragEndRevert ==
  /\ activeId /= None
  /\ activeId' = None
  /\ over' = None
  /\ dragFrom' = None
  /\ IF over = None \/ activeId \notin DOMAIN tasks
     THEN /\ tasks' = IF activeId \in DOMAIN tasks
                      THEN [tasks EXCEPT ![activeId].columnId = dragFrom]
                      ELSE tasks
          /\ UNCHANGED <<writes, nextReq>>
          /\ lastEvent' = Ev("dragEnd", activeId, None, None, "return")
     ELSE /\ writes' = writes \cup
               {NewWrite(nextReq + 1, "move", activeId,
                         tasks[activeId].columnId, 0, "", <<>>)}
          /\ nextReq' = nextReq + 1
          /\ UNCHANGED tasks
          /\ lastEvent' = Ev("dragEnd", activeId, tasks[activeId].columnId,
                             None, "write")
  /\ UNCHANGED <<session, store, currentBoard, columns, subtasks, drawer, loads,
                 nextTask, nextSub>>

\* the drop: over is what the drag layer reports at pointer release
handleDragEnd ==
  /\ activeId /= None
  /\ activeId' = None
  /\ over' = None
  /\ dragFrom' = None
  /\ IF over = None \/ activeId \notin DOMAIN tasks
     THEN /\ UNCHANGED <<writes, nextReq>>
          /\ lastEvent' = Ev("dragEnd", activeId, None, None, "return")
     ELSE /\ writes' = writes \cup
               {NewWrite(nextReq + 1, "move", activeId,
                         tasks[activeId].columnId, 0, "", <<>>)}
          /\ nextReq' = nextReq + 1
          /\ lastEvent' = Ev("dragEnd", activeId, tasks[activeId].columnId,
                             None, "write")
  /\ UNCHANGED <<session,
                 store, currentBoard, cache, drawer, loads, nextTask, nextSub>>

\* ---------------------------------------------------------------- createTask
\* the count taken without the filter on the column
ColumnCountAll(columnId) == Cardinality(DOMAIN tasks)

\* tasks.filter(t => t.columnId === targetColumnId).length
ColumnCount(columnId) ==
  Cardinality({t \in DOMAIN tasks : tasks[t].columnId = columnId})

\* a createTask that starts its load without awaiting the write
createTaskEager(columnId) ==
  /\ activeId = None /\ CanIssue /\ nextTask < MaxCreate
  /\ currentBoard /= None
  /\ columnId \in ColumnIds
  /\ writes' = writes \cup
       {NewWrite(nextReq + 1, "create", TaskPool[nextTask + 1], columnId,
                 ColumnCount(columnId), "A", <<"[", "]">>)}
  /\ loads' = loads \cup
       {NewLoad(nextReq + 1, currentBoard, "create", TaskPool[nextTask + 1])}
  /\ nextReq' = nextReq + 1
  /\ nextTask' = nextTask + 1
  /\ lastEvent' = Ev("createTask", TaskPool[nextTask + 1], columnId, None, None)
  /\ UNCHANGED <<session, store, currentBoard, cache, activeId, over,
                 dragFrom, drawer, nextSub>>

\* the add-task button of a rendered column calls createTask(title, column.id)
\* with a title that is not blank
createTask(columnId) ==
  /\ activeId = None /\ CanIssue /\ nextTask < MaxCreate
  /\ currentBoard /= None
  /\ columnId \in ColumnIds
  /\ writes' = writes \cup
       {NewWrite(nextReq + 1, "create", TaskPool[nextTask + 1], columnId,
                 ColumnCount(columnId), "A", <<"[", "]">>)}
  /\ nextReq' = nextReq + 1
  /\ nextTask' = nextTask + 1
  /\ lastEvent' = Ev("createTask", TaskPool[nextTask + 1], columnId, None, None)
  /\ UNCHANGED <<session, store, currentBoard, cache, activeId, over, dragFrom,
                 drawer, loads, nextSub>>

Includes(l, x) == \E i \in 1..Len(l) : l[i] = x

\* --------------------------------------------------------------- QuickAddTask
\* String.prototype.trim on the titles of the model
Trim(s) == IF s = " " THEN "" ELSE s

\* the form as QuickAddTask mounts it: useState('') for the title,
\* columns[0]?.id || '' for the column, [] for the tags; description and
\* dueDate are handled the way the tags are and are left out
NewForm ==
  [open |-> TRUE, title |-> "",
   selectedColumn |-> IF Len(columns) > 0 THEN columns[1].id ELSE "",
   tags |-> <<>>]

\* the "/" key or the Quick Add button; Escape, the X button, Cancel
setShowQuickAdd(b) ==
  /\ form.open = ~b
  /\ form' = IF b THEN NewForm ELSE NoForm
  /\ lastEvent' = Ev(IF b THEN "quickOpen" ELSE "quickClose", None, None,
                     None, None)
  /\ UNCHANGED <<dbBoards, inits, store, currentBoard, cache, activeId, over,
                 dragFrom, drawer, writes, loads, nextReq, nextTask, nextSub>>

QuickAddSetTitle(v) ==
  /\ form.open
  /\ v \in Titles \cup {""} /\ v /= form.title
  /\ form' = [form EXCEPT !.title = v]
  /\ lastEvent' = Ev("quickTitle", None, None, None, None)
  /\ UNCHANGED <<dbBoards, inits, store, currentBoard, cache, activeId, over,
                 dragFrom, drawer, writes, loads, nextReq, nextTask, nextSub>>

\* the Select lists the cached columns
setSelectedColumn(c) ==
  /\ form.open
  /\ c \in ColumnIds /\ c /= form.selectedColumn
  /\ form' = [form EXCEPT !.selectedColumn = c]
  /\ lastEvent' = Ev("quickColumn", None, c, None, None)
  /\ UNCHANGED <<dbBoards, inits, store, currentBoard, cache, activeId, over,
                 dragFrom, drawer, writes, loads, nextReq, nextTask, nextSub>>

QuickAddAddTag(tag) ==
  /\ form.open
  /\ tag \in TypedTags /\ ~Includes(form.tags, tag)
  /\ Len(form.tags) < MaxTags
  /\ form' = [form EXCEPT !.tags = Append(form.tags, tag)]
  /\ lastEvent' = Ev("quickAddTag", None, None, None, None)
  /\ UNCHANGED <<dbBoards, inits, store, currentBoard, cache, activeId, over,
                 dragFrom, drawer, writes, loads, nextReq, nextTask, nextSub>>

QuickAddRemoveTag(tag) ==
  /\ form.open
  /\ Includes(form.tags, tag)
  /\ form' = [form EXCEPT !.tags = SelectSeq(form.tags, LAMBDA x : x /= tag)]
  /\ lastEvent' = Ev("quickRemoveTag", None, None, None, None)
  /\ UNCHANGED <<dbBoards, inits, store, currentBoard, cache, activeId, over,
                 dragFrom, drawer, writes, loads, nextReq, nextTask, nextSub>>

\* columnId || columns[0]?.id in createTask
TargetColumn(columnId) ==
  IF columnId /= "" THEN columnId
  ELSE IF Len(columns) > 0 THEN columns[1].id ELSE None

\* onCreateTask(title.trim(), selectedColumn), the reset of the form and
\* onClose(); createTask returns without a write when it has no target column
handleSubmit ==
  /\ activeId = None
  /\ form.open /\ Trim(form.title) /= ""
  /\ currentBoard /= None
  /\ LET target == TargetColumn(form.selectedColumn) IN
       IF target = None
       THEN /\ UNCHANGED <<writes, nextReq, nextTask>>
            /\ lastEvent' = Ev("quickSubmit", None, None, None, None)
       ELSE /\ CanIssue /\ nextTask < MaxCreate
            /\ writes' = writes \cup
                 {NewWrite(nextReq + 1, "create", TaskPool[nextTask + 1],
                           target, ColumnCount(target), Trim(form.title),
                           <<"[", "]">>)}
            /\ nextReq' = nextReq + 1
            /\ nextTask' = nextTask + 1
            /\ lastEvent' = Ev("quickSubmit", TaskPool[nextTask + 1], target,
                               None, None)
  /\ form' = NoForm
  /\ UNCHANGED <<dbBoards, inits, store, currentBoard, cache, activeId, over,
                 dragFrom, drawer, loads, nextSub>>

\* ---------------------------------------------------------- TaskDetailDrawer
\* onTaskClick = setSelectedTask; the drawer's useState initialisers run only
\* when the drawer mounts, that is when no task was selected before
onTaskClick(t) ==
  /\ activeId = None
  /\ t \in DOMAIN tasks
  /\ selectedTask' = [id |-> t, task |-> tasks[t]]
  /\ IF selectedTask = NoTask
     THEN /\ isEditing' = FALSE
          /\ dTitle' = tasks[t].title
          /\ dTags' = tasks[t].tags
     ELSE UNCHANGED <<isEditing, dTitle, dTags>>
  /\ lastEvent' = Ev("taskClick", t, None, None, None)
  /\ UNCHANGED <<session, store, currentBoard, cache, activeId, over, dragFrom,
                 writes, loads,
                 nextReq, nextTask, nextSub>>

\* the handlers of an unmounted drawer can no longer set its state
Unmounted(ws) == {[w EXCEPT !.live = FALSE] : w \in ws}

onClose ==
  /\ activeId = None
  /\ selectedTask /= NoTask
  /\ selectedTask' = NoTask
  /\ writes' = Unmounted(writes)
  /\ lastEvent' = Ev("close", selectedTask.id, None, None, None)
  /\ UNCHANGED <<session, store, currentBoard, cache, activeId, over, dragFrom,
                 isEditing,
                 dTitle, dTags, loads, nextReq, nextTask, nextSub>>

\* the Edit and Cancel buttons: setIsEditing(true), setIsEditing(false)
setIsEditing(b) ==
  /\ activeId = None
  /\ selectedTask /= NoTask
  /\ isEditing = ~b
  /\ isEditing' = b
  /\ lastEvent' = Ev(IF b THEN "edit" ELSE "cancel", selectedTask.id, None,
                     None, None)
  /\ UNCHANGED <<session, store, currentBoard, cache, activeId, over, dragFrom,
                 selectedTask,
                 dTitle, dTags, writes, loads, nextReq, nextTask, nextSub>>

setTitle(v) ==
  /\ activeId = None
  /\ selectedTask /= NoTask /\ isEditing
  /\ v \in Titles /\ v /= dTitle
  /\ dTitle' = v
  /\ lastEvent' = Ev("setTitle", selectedTask.id, None, None, None)
  /\ UNCHANGED <<session, store, currentBoard, cache, activeId, over, dragFrom,
                 selectedTask,
                 isEditing, dTags, writes, loads, nextReq, nextTask, nextSub>>

addTag(tag) ==
  /\ activeId = None
  /\ selectedTask /= NoTask /\ isEditing
  /\ tag \in TypedTags /\ ~Includes(dTags, tag) /\ Len(dTags) < MaxTags
  /\ dTags' = Append(dTags, tag)
  /\ lastEvent' = Ev("addTag", selectedTask.id, None, None, None)
  /\ UNCHANGED <<session, store, currentBoard, cache, activeId, over, dragFrom,
                 selectedTask,
                 isEditing, dTitle, writes, loads, nextReq, nextTask, nextSub>>

removeTag(tag) ==
  /\ activeId = None
  /\ selectedTask /= NoTask /\ isEditing
  /\ Includes(dTags, tag)
  /\ dTags' = SelectSeq(dTags, LAMBDA x : x /= tag)
  /\ lastEvent' = Ev("removeTag", selectedTask.id, None, None, None)
  /\ UNCHANGED <<session, store, currentBoard, cache, activeId, over, dragFrom,
                 selectedTask,
                 isEditing, dTitle, writes, loads, nextReq, nextTask, nextSub>>

\* description and dueDate are written the way title is and are left out
handleSave ==
  /\ activeId = None /\ CanIssue
  /\ selectedTask /= NoTask /\ isEditing
  /\ writes' = writes \cup
       {NewWrite(nextReq + 1, "save", selectedTask.id, None, 0, dTitle,
                 JSONstringify(dTags))}
  /\ nextReq' = nextReq + 1
  /\ lastEvent' = Ev("save", selectedTask.id, None, None, None)
  /\ UNCHANGED <<session, store, currentBoard, cache, activeId, over, dragFrom,
                 drawer, loads,
                 nextTask, nextSub>>

\* confirm() answered with OK
handleDelete ==
  /\ activeId = None /\ CanIssue
  /\ selectedTask /= NoTask
  /\ writes' = writes \cup
       {NewWrite(nextReq + 1, "delete", selectedTask.id, None, 0, "", <<>>)}
  /\ nextReq' = nextReq + 1
  /\ lastEvent' = Ev("delete", selectedTask.id, None, None, None)
  /\ UNCHANGED <<session, store, currentBoard, cache, activeId, over, dragFrom,
                 drawer, loads,
                 nextTask, nextSub>>

\* the subtasks prop of the drawer shown without the filter on the task
DrawerSubtasksAll == DOMAIN subtasks

\* subtasks.filter(st => st.taskId === selectedTask.id), the subtasks prop
DrawerSubtasks == {s \in DOMAIN subtasks : subtasks[s].taskId = selectedTask.id}

NewSubWrite(id, kind, sub, position, completed) ==
  [NewWrite(id, kind, selectedTask.id, None, position, "", <<>>)
     EXCEPT !.sub = sub, !.completed = completed]

\* the checkbox of a listed subtask: onCheckedChange gives the opposite of
\* what is shown
toggleSubtask(s) ==
  /\ activeId = None /\ CanIssue
  /\ selectedTask /= NoTask
  /\ s \in DrawerSubtasks
  /\ writes' = writes \cup
       {NewSubWrite(nextReq + 1, "toggleSubtask", s, 0, ~subtasks[s].completed)}
  /\ nextReq' = nextReq + 1
  /\ lastEvent' = Ev("toggleSubtask", selectedTask.id, None, None, None)
  /\ UNCHANGED <<session, store, currentBoard, cache, activeId, over, dragFrom,
                 drawer, loads, nextTask, nextSub>>

\* the Add button or Enter with a title that is not blank
addSubtask ==
  /\ activeId = None /\ CanIssue /\ nextSub < Len(SubPool)
  /\ selectedTask /= NoTask
  /\ writes' = writes \cup
       {NewSubWrite(nextReq + 1, "addSubtask", SubPool[nextSub + 1],
                    Cardinality(DrawerSubtasks), FALSE)}
  /\ nextReq' = nextReq + 1
  /\ nextSub' = nextSub + 1
  /\ lastEvent' = Ev("addSubtask", selectedTask.id, None, None, None)
  /\ UNCHANGED <<session, store, currentBoard, cache, activeId, over, dragFrom,
                 drawer, loads, nextTask>>

\* the remove button of a listed subtask
deleteSubtask(s) ==
  /\ activeId = None /\ CanIssue
  /\ selectedTask /= NoTask
  /\ s \in DrawerSubtasks
  /\ writes' = writes \cup
       {NewSubWrite(nextReq + 1, "deleteSubtask", s, 0, FALSE)}
  /\ nextReq' = nextReq + 1
  /\ lastEvent' = Ev("deleteSubtask", selectedTask.id, None, None, None)
  /\ UNCHANGED <<session, store, currentBoard, cache, activeId, over, dragFrom,
                 drawer, loads, nextTask, nextSub>>

\* ------------------------------------------------------- completion of writes
\* a store write in which a move also puts the task at the end of its column
AppliedRenumber(w) ==
  IF w.kind = "create"
  THEN [t \in DOMAIN dbTasks \cup {w.task} |->
          IF t = w.task
          THEN [columnId |-> w.columnId, boardId |-> w.board,
                position |-> w.position, tags |-> w.tags, title |-> w.title,
                updatedAt |-> 0]
          ELSE dbTasks[t]]
  ELSE IF w.task \notin DOMAIN dbTasks THEN dbTasks
  ELSE IF w.kind = "move"
  THEN [dbTasks EXCEPT ![w.task].columnId = w.columnId,
                       ![w.task].position =
                          Cardinality({t \in DOMAIN dbTasks \ {w.task} :
                                         dbTasks[t].columnId = w.columnId}),
                       ![w.task].updatedAt = 1]
  ELSE IF w.kind = "save"
  THEN [dbTasks EXCEPT ![w.task].title = w.title, ![w.task].tags = w.tags,
                       ![w.task].updatedAt = 1]
  ELSE IF w.kind = "delete"
  THEN [t \in DOMAIN dbTasks \ {w.task} |-> dbTasks[t]]
  ELSE dbTasks

\* what the store holds after the write
Applied(w) ==
  IF w.kind = "create"
  THEN [t \in DOMAIN dbTasks \cup {w.task} |->
          IF t = w.task
          THEN [columnId |-> w.columnId, boardId |-> w.board,
                position |-> w.position, tags |-> w.tags, title |-> w.title,
                updatedAt |-> 0]
          ELSE dbTasks[t]]
  ELSE IF w.task \notin DOMAIN dbTasks THEN dbTasks
  ELSE IF w.kind = "move"
  THEN [dbTasks EXCEPT ![w.task].columnId = w.columnId,
                       ![w.task].updatedAt = 1]
  ELSE IF w.kind = "save"
  THEN [dbTasks EXCEPT ![w.task].title = w.title, ![w.task].tags = w.tags,
                       ![w.task].updatedAt = 1]
  ELSE IF w.kind = "delete"
  THEN [t \in DOMAIN dbTasks \ {w.task} |-> dbTasks[t]]
  ELSE dbTasks

\* what the store holds of the subtasks after the write
AppliedSubtasks(w) ==
  IF w.kind = "addSubtask"
  THEN [s \in DOMAIN dbSubtasks \cup {w.sub} |->
          IF s = w.sub
          THEN [taskId |-> w.task, position |-> w.position,
                completed |-> w.completed]
          ELSE dbSubtasks[s]]
  ELSE IF w.sub \notin DOMAIN dbSubtasks THEN dbSubtasks
  ELSE IF w.kind = "toggleSubtask"
  THEN [dbSubtasks EXCEPT ![w.sub].completed = w.completed]
  ELSE IF w.kind = "deleteSubtask"
  THEN [s \in DOMAIN dbSubtasks \ {w.sub} |-> dbSubtasks[s]]
  ELSE dbSubtasks

OkToast(kind) ==
  CASE kind = "create" -> "Task created"
    [] kind = "save" -> "Task updated"
    [] kind = "delete" -> "Task deleted"
    [] kind = "addSubtask" -> "Subtask added"
    [] kind = "deleteSubtask" -> "Subtask deleted"
    [] OTHER -> None

FailToast(kind) ==
  CASE kind = "create" -> "Creation Error"
    [] kind = "save" -> "Update failed"
    [] kind = "delete" -> "Delete failed"
    [] kind = "toggleSubtask" -> "Update failed"
    [] kind = "addSubtask" -> "Creation failed"
    [] kind = "deleteSubtask" -> "Delete failed"
    [] OTHER -> "Update Error"

\* the awaited write resolves; the rest of the handler runs: loadBoardData
\* for the board of the render the handler belongs to, the toast, and for the
\* drawer setIsEditing(false) after a save and onClose() after a delete
WriteOk(w) ==
  /\ w \in writes
  /\ writes' = writes \ {w}
  /\ dbTasks' = Applied(w)
  /\ dbSubtasks' = AppliedSubtasks(w)
  /\ loads' = loads \cup {NewLoad(w.id, w.board, w.kind, w.task)}
  /\ isEditing' = IF w.kind = "save" /\ w.live THEN FALSE ELSE isEditing
  /\ selectedTask' = IF w.kind = "delete" THEN NoTask ELSE selectedTask
  /\ lastEvent' = Ev("writeOk", w.task, w.columnId, OkToast(w.kind), w.kind)
  /\ UNCHANGED <<session, dbColumns, currentBoard, cache, activeId, over,
                 dragFrom,
                 dTitle, dTags, nextReq, nextTask, nextSub>>

\* a catch block that reloads the board after every failed write
WriteFailReload(w) ==
  /\ w \in writes
  /\ writes' = writes \ {w}
  /\ loads' = loads \cup {NewLoad(w.id, w.board, "moveFail", w.task)}
  /\ lastEvent' = Ev("writeFail", w.task, w.columnId, FailToast(w.kind), w.kind)
  /\ UNCHANGED <<session,
                 store, currentBoard, cache, activeId, over, dragFrom, drawer,
                 nextReq, nextTask, nextSub>>

\* the awaited write rejects: the catch block raises the toast; only
\* handleDragEnd reloads there
WriteFail(w) ==
  /\ w \in writes
  /\ writes' = writes \ {w}
  /\ loads' = IF w.kind = "move"
              THEN loads \cup {NewLoad(w.id, w.board, "moveFail", w.task)}
              ELSE loads
  /\ lastEvent' = Ev("writeFail", w.task, w.columnId, FailToast(w.kind), w.kind)
  /\ UNCHANGED <<session,
                 store, currentBoard, cache, activeId, over, dragFrom, drawer,
                 nextReq, nextTask, nextSub>>

\* ------------------------------------------------------------ specification
InitColumns ==
  {[id |-> "c1", boardId |-> "b1", position |-> 0],
   [id |-> "c2", boardId |-> "b1", position |-> 1],
   [id |-> "c3", boardId |-> "b2", position |-> 0]}

InitTask(columnId, boardId, position, title, tags) ==
  [columnId |-> columnId, boardId |-> boardId, position |-> position,
   tags |-> tags, title |-> title, updatedAt |-> 0]

InitSubtasks ==
  [s \in {"s1"} |-> [taskId |-> "t1", position |-> 0, completed |-> FALSE]]

\* the column and position of task t2 when the board is opened
InitSecond == {<<"c1", 1>>, <<"c2", 0>>}

\* the tasks of board b1 when the board is opened
InitTasks(second) ==
  [t \in {"t1", "t2"} |->
     IF t = "t1" THEN InitTask("c1", "b1", 0, "A", JSONstringify(<<>>))
     ELSE InitTask(second[1], "b1", second[2], "B",
                   JSONstringify(<<<<"a">>>>))]

\* the user is signed in, initializeUserBoard has found the boards and set
\* currentBoard, and the effect on [currentBoard] has called loadBoardData
InitClient ==
  /\ currentBoard = "b1"
  /\ columns = <<>>
  /\ tasks = EmptyFn
  /\ subtasks = EmptyFn
  /\ activeId = None
  /\ over = None
  /\ dragFrom = None
  /\ selectedTask = NoTask
  /\ isEditing = FALSE
  /\ dTitle = ""
  /\ dTags = <<>>
  /\ writes = {}
  /\ loads = {NewLoad(0, "b1", "select", None)}
  /\ nextReq = 0
  /\ nextTask = 0
  /\ nextSub = 0
  /\ dbBoards = <<"b1", "b2">>
  /\ inits = {}
  /\ form = NoForm
  /\ lastEvent = Ev("init", None, None, None, None)

Init ==
  /\ dbColumns = InitColumns
  /\ \E second \in InitSecond : dbTasks = InitTasks(second)
  /\ dbSubtasks = InitSubtasks
  /\ InitClient

AllColumnIds == {c.id : c \in InitColumns}

\* requests in flight
Async ==
  \/ \E l \in loads : LoadRead(l)
  \/ \E l \in loads : LoadFail(l)
  \/ \E l \in loads : LoadReturn(l)
  \/ \E w \in writes : WriteOk(w)
  \/ \E w \in writes : WriteFail(w)

\* the board: selection, drag and drop, task creation
Next ==
  \/ Async
  \/ \E b \in Boards : SelectBoard(b)
  \/ \E t \in TaskIds : handleDragStart(t)
  \/ \E o \in TaskIds \cup AllColumnIds \cup {None} : handleDragOver(o)
  \/ handleDragEnd
  \/ \E c \in AllColumnIds : createTask(c)

Spec == Init /\ [][Next]_vars

\* board b2 holds a task whose tags text is not JSON
InitDecode ==
  /\ dbColumns = InitColumns
  /\ \E second \in InitSecond :
       dbTasks = [t \in {"t0", "t1", "t2"} |->
                    IF t = "t0" THEN InitTask("c3", "b2", 0, "B", Malformed)
                    ELSE InitTasks(second)[t]]
  /\ dbSubtasks = InitSubtasks
  /\ InitClient

SpecDecode == InitDecode /\ [][Next]_vars

\* the drawer of a task that has just been put into edit mode with a typed
\* tag list, on a board that is loaded; t2 carries no tags in the store
InitTags ==
  /\ dbColumns = InitColumns
  /\ \E txt \in {NullText, <<>>} :
       dbTasks = [t \in {"t1", "t2"} |->
                    IF t = "t1"
                    THEN InitTask("c1", "b1", 0, "A", JSONstringify(<<>>))
                    ELSE InitTask("c2", "b1", 0, "B", txt)]
  /\ dbSubtasks = InitSubtasks
  /\ currentBoard = "b1"
  /\ columns = ListColumns("b1")
  /\ tasks = [t \in {"t1", "t2"} |->
                IF t = "t1" THEN InitTask("c1", "b1", 0, "A", <<>>)
                ELSE InitTask("c2", "b1", 0, "B", <<>>)]
  /\ subtasks = InitSubtasks
  /\ activeId = None
  /\ over = None
  /\ dragFrom = None
  /\ selectedTask = [id |-> "t1", task |-> tasks["t1"]]
  /\ isEditing = TRUE
  /\ dTitle = "A"
  /\ dTags \in TagLists
  /\ writes = {}
  /\ loads = {}
  /\ nextReq = 0
  /\ nextTask = 0
  /\ nextSub = 0
  /\ dbBoards = <<"b1", "b2">>
  /\ inits = {}
  /\ form = NoForm
  /\ lastEvent = Ev("addTag", "t1", None, None, None)

\* saving the drawer and the reconciliation that follows
NextTags ==
  \/ Async
  \/ \E b \in BOOLEAN : setIsEditing(b)
  \/ handleSave

SpecTags == InitTags /\ [][NextTags]_vars

\* the subtasks of the store when the drawer is opened: two of task t1 and
\* one of task t2
InitSubtasksTwo ==
  [s \in {"s0", "s1", "s2"} |->
     [taskId |-> IF s = "s0" THEN "t2" ELSE "t1",
      position |-> IF s = "s2" THEN 1 ELSE 0,
      completed |-> FALSE]]

\* board b1 is loaded and the user has clicked the card of task t1
InitDrawer ==
  /\ dbColumns = InitColumns
  /\ dbTasks = InitTasks(<<"c1", 1>>)
  /\ dbSubtasks = InitSubtasksTwo
  /\ currentBoard = "b1"
  /\ columns = ListColumns("b1")
  /\ tasks = DecodeAll(ListTasks("b1"))
  /\ subtasks = InitSubtasksTwo
  /\ activeId = None
  /\ over = None
  /\ dragFrom = None
  /\ selectedTask = [id |-> "t1", task |-> tasks["t1"]]
  /\ isEditing = FALSE
  /\ dTitle = "A"
  /\ dTags = <<>>
  /\ writes = {}
  /\ loads = {}
  /\ nextReq = 0
  /\ nextTask = 0
  /\ nextSub = 0
  /\ dbBoards = <<"b1", "b2">>
  /\ inits = {}
  /\ form = NoForm
  /\ lastEvent = Ev("taskClick", "t1", None, None, None)

\* the mutators of tasks and subtasks, with the drawer open on a task
NextDrawer ==
  \/ Async
  \/ \E b \in BOOLEAN : setIsEditing(b)
  \/ handleSave
  \/ handleDelete
  \/ \E s \in SubIds : toggleSubtask(s)
  \/ addSubtask
  \/ \E s \in SubIds : deleteSubtask(s)
  \/ \E c \in AllColumnIds : createTask(c)

SpecDrawer == InitDrawer /\ [][NextDrawer]_vars

\* every mutation: the drop, createTask and the mutators of the drawer, with
\* the Edit button and the pointer hovering columns
NextMutations ==
  \/ Async
  \/ setIsEditing(TRUE)
  \/ handleSave
  \/ handleDelete
  \/ \E sub \in SubIds : toggleSubtask(sub)
  \/ addSubtask
  \/ \E sub \in SubIds : deleteSubtask(sub)
  \/ \E c \in AllColumnIds : createTask(c)
  \/ \E t \in TaskIds : handleDragStart(t)
  \/ \E o \in AllColumnIds : handleDragOver(o)
  \/ handleDragEnd

SpecMutations == InitDrawer /\ [][NextMutations]_vars

\* a user without a board has signed in: nothing is cached or in flight
InitBoot ==
  /\ dbColumns = {}
  /\ dbTasks = EmptyFn
  /\ dbSubtasks = EmptyFn
  /\ dbBoards = <<>>
  /\ inits = {}
  /\ form = NoForm
  /\ currentBoard = None
  /\ columns = <<>>
  /\ tasks = EmptyFn
  /\ subtasks = EmptyFn
  /\ activeId = None
  /\ over = None
  /\ dragFrom = None
  /\ selectedTask = NoTask
  /\ isEditing = FALSE
  /\ dTitle = ""
  /\ dTags = <<>>
  /\ writes = {}
  /\ loads = {}
  /\ nextReq = 0
  /\ nextTask = 0
  /\ nextSub = 0
  /\ lastEvent = Ev("init", None, None, None, None)

\* the provisioning of the default board, and the loads it starts
NextBoot ==
  \/ authDelivers
  \/ \E i \in inits : InitListed(i)
  \/ \E i \in inits : InitBoardCreated(i)
  \/ \E i \in inits : InitColumnCreated(i)
  \/ \E i \in inits : InitRelisted(i)
  \/ \E i \in inits : InitFail(i)
  \/ \E l \in loads : LoadRead(l)
  \/ \E l \in loads : LoadFail(l)
  \/ \E l \in loads : LoadReturn(l)

SpecBoot == InitBoot /\ [][NextBoot]_vars

\* the drawer: selecting tasks, editing the draft, Cancel and Save
NextEdit ==
  \/ Async
  \/ \E t \in TaskIds : onTaskClick(t)
  \/ \E b \in BOOLEAN : setIsEditing(b)
  \/ \E v \in Titles : setTitle(v)
  \/ handleSave

SpecEdit == InitDrawer /\ [][NextEdit]_vars

\* the Quick Add form, on a board whose first load is in flight
NextQuick ==
  \/ Async
  \/ \E b \in BOOLEAN : setShowQuickAdd(b)
  \/ \E v \in Titles \cup {""} : QuickAddSetTitle(v)
  \/ \E c \in AllColumnIds : setSelectedColumn(c)
  \/ \E tag \in TypedTags : QuickAddAddTag(tag)
  \/ \E tag \in TypedTags : QuickAddRemoveTag(tag)
  \/ handleSubmit

SpecQuick == Init /\ [][NextQuick]_vars

\* ------------------------------------------------------------------ claims
CacheMatchesStore ==
  \A t \in DOMAIN tasks :
    t \in DOMAIN dbTasks /\ tasks[t].columnId = dbTasks[t].columnId

\* C1: when the load that a drop triggered has returned, every cached task
\* is in the column the remote store has it in
Convergence ==
  (lastEvent.op = "loadReturn" /\ lastEvent.origin \in {"move", "moveFail"})
    => CacheMatchesStore

AtRest == activeId = None /\ writes = {} /\ loads = {}

\* C2: with no drag in progress and no write or load in flight, the cached
\* tasks are in the columns the store has them in, and in cached columns
AtRestMirror ==
  AtRest => /\ CacheMatchesStore
            /\ \A t \in DOMAIN tasks : tasks[t].columnId \in ColumnIds

\* C3: a drop whose write fails raises the error toast and starts a load,
\* and when that load has returned the dragged task is cached in the column
\* the store has it in
FailedDropRollsBack ==
  [][/\ \A w \in writes :
          (w.kind = "move" /\ lastEvent'.op = "writeFail"
             /\ \A v \in writes' : v.id /= w.id)
          => /\ lastEvent'.toast = "Update Error"
             /\ \E l \in loads' : l.id = w.id /\ l.board = w.board
     /\ (lastEvent'.op = "loadReturn" /\ lastEvent'.origin = "moveFail"
           /\ lastEvent'.task \in DOMAIN tasks' \cap DOMAIN dbTasks')
          => tasks'[lastEvent'.task].columnId
               = dbTasks'[lastEvent'.task].columnId]_vars

\* the droppable resolves to column c: it is c, or a cached task of c
ResolvesTo(o, c) ==
  o = c \/ (o \in DOMAIN tasks /\ tasks[o].columnId = c)

\* C4: a drag that ends on the column the task started in, or on a task of
\* that column, issues no write
SelfDropWritesNothing ==
  [][(activeId /= None /\ activeId' = None /\ ResolvesTo(over, dragFrom))
       => writes' = writes]_vars

\* C5: a drag-over whose target resolves to the column the dragged task is
\* cached in leaves columns, tasks and subtasks as they are, and a drag-over
\* that repeats the previous one changes nothing
OptimisticIdempotence ==
  [][/\ (lastEvent'.op = "dragOver" /\ activeId \in DOMAIN tasks
           /\ ResolvesTo(over', tasks[activeId].columnId))
          => cache' = cache
     /\ (lastEvent.op = "dragOver" /\ lastEvent'.op = "dragOver"
           /\ over' = over)
          => cache' = cache]_vars

\* C5 witness: the dragged task has been moved optimistically into a column
\* and is hovered over that column again
HoverSameColumnAgain ==
  /\ lastEvent.op = "dragOver" /\ lastEvent.origin = "same"
  /\ activeId \in DOMAIN tasks \cap DOMAIN dbTasks
  /\ over = tasks[activeId].columnId
  /\ tasks[activeId].columnId /= dragFrom
  /\ tasks[activeId].columnId /= dbTasks[activeId].columnId

\* C6: no two tasks of the store share a column and a position
PositionsUnique ==
  \A t, u \in DOMAIN dbTasks :
    (t /= u /\ dbTasks[t].columnId = dbTasks[u].columnId)
      => dbTasks[t].position /= dbTasks[u].position

InColumn(c) == {t \in DOMAIN tasks : tasks[t].columnId = c}

\* C7: createTask issues the create with the number of cached tasks of the
\* target column as position, which is n when those tasks are at 0..n-1,
\* and the store holds the task at that position
AppendOrdering ==
  [][/\ \A w \in writes' :
          (w.kind = "create" /\ \A v \in writes : v.id /= w.id)
          => /\ w.position = Cardinality(InColumn(w.columnId))
             /\ \A n \in 0..Cardinality(DOMAIN tasks) :
                  (/\ Cardinality(InColumn(w.columnId)) = n
                   /\ {tasks[t].position : t \in InColumn(w.columnId)}
                        = 0..(n - 1))
                    => w.position = n
     /\ \A w \in writes :
          (w.kind = "create" /\ lastEvent'.op = "writeOk"
             /\ \A v \in writes' : v.id /= w.id)
          => /\ w.task \in DOMAIN dbTasks'
             /\ dbTasks'[w.task].position = w.position
             /\ dbTasks'[w.task].columnId = w.columnId]_vars

\* C7 witness: a task is created in a column that holds two tasks at
\* positions 0 and 1, and gets position 2
ThirdTaskGetsTwo ==
  /\ lastEvent.op = "createTask"
  /\ \E w \in writes :
       /\ w.kind = "create" /\ w.position = 2
       /\ {tasks[t].position : t \in InColumn(w.columnId)} = {0, 1}

\* the load l has ended in this step
Ended(l) == l.phase = "read" /\ \A m \in loads' : m.id /= l.id

\* C8: a load whose tasks carry a tag text that does not parse still caches
\* the fetched columns, tasks and subtasks, that task with no tags, and
\* raises no toast
DecodeFailureSilent ==
  [][\A l \in loads :
       Ended(l)
       => /\ lastEvent'.toast /= "Loading Error"
          /\ columns' = l.cols
          /\ subtasks' = l.sts
          /\ DOMAIN tasks' = DOMAIN l.tks
          /\ \A t \in DOMAIN l.tks :
               tasks'[t].tags = IF DecodeTags(l.tks[t].tags).ok
                                THEN DecodeTags(l.tks[t].tags).val
                                ELSE <<>>]_vars

\* C9: a load replaces columns, tasks and subtasks together or changes none
\* of them; with the loading-error toast it changes none
LoadAllOrNothing ==
  [][\A l \in loads :
       (\A m \in loads' : m.id /= l.id)
       => /\ \/ cache' = cache
             \/ /\ columns' = l.cols
                /\ tasks' = DecodeAll(l.tks)
                /\ subtasks' = l.sts
          /\ lastEvent'.toast = "Loading Error" => cache' = cache]_vars

\* C10: after a save and the load it triggers, the saved task is cached with
\* the tag list of the drawer, a task whose stored tags are null or '' is
\* cached with no tags, and no load fails on a text the client wrote
TagRoundTrip ==
  /\ lastEvent.op /= "loadThrow"
  /\ lastEvent.op = "loadReturn"
       => \A t \in DOMAIN tasks \cap DOMAIN dbTasks :
            IF Truthy(dbTasks[t].tags)
            THEN t = selectedTask.id => tasks[t].tags = dTags
            ELSE tasks[t].tags = <<>>

\* C10 witness: two tags made of quotes, commas and backslashes have come
\* back from the store, next to a task stored with null tags
QuotedTagsComeBack ==
  /\ lastEvent.op = "loadReturn" /\ lastEvent.origin = "save"
  /\ dTags = << <<"\"", ",">>, <<"\\", "\"">> >>
  /\ tasks["t1"].tags = dTags
  /\ dbTasks["t2"].tags = NullText /\ tasks["t2"].tags = <<>>

\* the mutators that apply no optimistic change
MutatorKinds ==
  {"create", "save", "delete", "toggleSubtask", "addSubtask", "deleteSubtask"}

\* the write w has completed in this step
Completed(w) == \A v \in writes' : v.id /= w.id

\* C11: when the write of createTask, handleSave, handleDelete, toggleSubtask,
\* addSubtask or deleteSubtask fails, one error toast is raised, no load is
\* started, and cached columns, tasks and subtasks stay as they are
MutatorFailureKeepsCache ==
  [][\A w \in writes :
       (w.kind \in MutatorKinds /\ Completed(w) /\ lastEvent'.op = "writeFail")
       => /\ lastEvent'.toast \in {"Creation Error", "Update failed",
                                   "Delete failed", "Creation failed"}
          /\ loads' = loads
          /\ cache' = cache
          /\ store' = store]_vars

\* C11 witness: the write of deleteSubtask has failed while the write of
\* another mutator is still awaited
FailedSubtaskDelete ==
  /\ lastEvent.op = "writeFail" /\ lastEvent.origin = "deleteSubtask"
  /\ lastEvent.toast = "Delete failed"
  /\ loads = {}
  /\ \E w \in writes : w.kind \in MutatorKinds
  /\ DOMAIN subtasks = DOMAIN dbSubtasks

\* C12: when the write of one of these mutators succeeds, a load of the board
\* the mutator was called on is started and a success toast is raised
MutatorSuccessProtocol ==
  [][\A w \in writes :
       (w.kind \in MutatorKinds /\ Completed(w) /\ lastEvent'.op = "writeOk")
       => /\ \E l \in loads' \ loads : l.id = w.id /\ l.board = w.board
          /\ lastEvent'.toast /= None]_vars

\* the store has the column c on board b
ColumnOfBoard(c, b) == \E col \in dbColumns : col.id = c /\ col.boardId = b

\* C13: every create the client sends puts the task into a column of the
\* task's board, and every move sends a column of the board of the moved task
WritesKeepColumnOnBoard ==
  \A w \in writes :
    /\ w.kind = "create" => ColumnOfBoard(w.columnId, w.board)
    /\ (w.kind = "move" /\ w.task \in DOMAIN dbTasks)
         => ColumnOfBoard(w.columnId, dbTasks[w.task].boardId)

\* the cached subtasks of task t, the number a card shows as its total
SubtasksOf(t) == {s \in DOMAIN subtasks : subtasks[s].taskId = t}

LastReconciliationWins ==
  [][\A l \in loads :
       (Ended(l) /\ lastEvent'.op = "loadReturn" /\ loads' = {})
       => /\ columns' = l.cols
          /\ tasks' = DecodeAll(l.tks)
          /\ subtasks' = l.sts]_vars

\* C15 witness: nothing is in flight, the step before was the return of a
\* load, and a cached task is in another column than the store has it in:
\* the load had read before a later move was written, and returned after
\* the load of that move
StaleReadWins ==
  /\ AtRest
  /\ lastEvent.op = "loadReturn"
  /\ \E t \in DOMAIN tasks \cap DOMAIN dbTasks :
       /\ tasks[t].columnId /= dbTasks[t].columnId
       /\ dbTasks[t].updatedAt = 1

\* C16: a drag that ends over no droppable sends no write, starts no load,
\* raises no toast and leaves cache, store, board and drawer as they are
DropWithoutTarget ==
  [][(activeId /= None /\ activeId' = None /\ over = None)
       => /\ writes' = writes
          /\ loads' = loads
          /\ cache' = cache
          /\ store' = store
          /\ currentBoard' = currentBoard
          /\ drawer' = drawer
          /\ lastEvent'.toast = None]_vars

\* C16 witness: a drag has ended without a target and the task is still
\* cached in the column of its last optimistic move
OptimisticMoveKept ==
  /\ lastEvent.op = "dragEnd" /\ lastEvent.origin = "return"
  /\ lastEvent.task \in DOMAIN tasks \cap DOMAIN dbTasks
  /\ tasks[lastEvent.task].columnId /= dbTasks[lastEvent.task].columnId
  /\ writes = {} /\ loads = {}

\* C17: a drop on a target, of a task that is cached, sends one write, a move
\* of that task to its cached column; when the write succeeds the store
\* differs in the columnId and updatedAt of that task only; and the
\* completion of the write, success or failure, starts one load
OneWritePerDrop ==
  [][/\ (activeId /= None /\ activeId' = None /\ over /= None
           /\ activeId \in DOMAIN tasks)
          => /\ loads' = loads
             /\ \E w \in writes' :
                  /\ \A v \in writes : v.id /= w.id
                  /\ writes' = writes \cup {w}
                  /\ w.kind = "move" /\ w.task = activeId
                  /\ w.columnId = tasks[activeId].columnId
     /\ \A w \in writes :
          (w.kind = "move" /\ Completed(w))
          => /\ loads \subseteq loads'
             /\ Cardinality(loads' \ loads) = 1
             /\ \A l \in loads' \ loads : l.id = w.id /\ l.board = w.board
             /\ dbColumns' = dbColumns /\ dbSubtasks' = dbSubtasks
             /\ DOMAIN dbTasks' = DOMAIN dbTasks
             /\ \A t \in DOMAIN dbTasks :
                  IF t = w.task /\ lastEvent'.op = "writeOk"
                  THEN /\ dbTasks'[t].columnId = w.columnId
                       /\ dbTasks'[t] =
                            [dbTasks[t] EXCEPT
                               !.columnId = w.columnId,
                               !.updatedAt = dbTasks'[t].updatedAt]
                  ELSE dbTasks'[t] = dbTasks[t]]_vars

\* C17 witness: the write of a drop into another column has failed and the
\* load of that drop is the one load in flight
FailedDropReloads ==
  /\ lastEvent.op = "writeFail" /\ lastEvent.origin = "move"
  /\ writes = {}
  /\ Cardinality(loads) = 1
  /\ \E l \in loads : l.origin = "moveFail" /\ l.task = lastEvent.task
  /\ lastEvent.task \in DOMAIN tasks \cap DOMAIN dbTasks
  /\ tasks[lastEvent.task].columnId /= dbTasks[lastEvent.task].columnId

\* C18: a drag-over leaves columns, subtasks, store and writes as they are,
\* and changes nothing in the cached tasks but the columnId of the dragged
\* task
DragOverFrame ==
  [][(activeId /= None /\ lastEvent'.op = "dragOver" /\ loads' = loads)
       => /\ columns' = columns
          /\ subtasks' = subtasks
          /\ store' = store
          /\ writes' = writes
          /\ DOMAIN tasks' = DOMAIN tasks
          /\ \A t \in DOMAIN tasks :
               IF t = activeId
               THEN tasks'[t] =
                      [tasks[t] EXCEPT !.columnId = tasks'[t].columnId]
               ELSE tasks'[t] = tasks[t]]_vars

\* C18 witness: the dragged task has just been moved in the cache to
\* another column, and nothing has been written
MovedInCacheOnly ==
  /\ lastEvent.op = "dragOver" /\ lastEvent.origin = "moved"
  /\ activeId \in DOMAIN tasks \cap DOMAIN dbTasks
  /\ tasks[activeId].columnId /= dragFrom
  /\ dbTasks[activeId].columnId = dragFrom
  /\ tasks[activeId].position = dbTasks[activeId].position
  /\ writes = {}

\* C19: when a load of board B has returned, the cached columns and tasks
\* are of board B and every cached subtask is of a cached task
ReconciliationScope ==
  [][\A l \in loads :
       (Ended(l) /\ lastEvent'.op = "loadReturn")
       => /\ \A i \in 1..Len(columns') : columns'[i].boardId = l.board
          /\ \A t \in DOMAIN tasks' : tasks'[t].boardId = l.board
          /\ \A s \in DOMAIN subtasks' :
               subtasks'[s].taskId \in DOMAIN tasks']_vars

\* C20: a load that returns sets cached columns, tasks and subtasks to the
\* records it fetched, the tags decoded: no key and no field of the cache
\* before it is kept, neither the column an unfinished drag has put its
\* task in
WholesaleReplace ==
  [][\A l \in loads :
       (Ended(l) /\ lastEvent'.op = "loadReturn")
       => /\ columns' = l.cols
          /\ subtasks' = l.sts
          /\ DOMAIN tasks' = DOMAIN l.tks
          /\ \A t \in DOMAIN l.tks :
               tasks'[t] =
                 [l.tks[t] EXCEPT !.tags = DecodeTags(l.tks[t].tags).val]]_vars

\* C20 witness: during a drag the pointer is over another column, where the
\* last drag-over has put the task, and a load has returned and put the
\* task back into the column the store has it in
LoadUndoesOptimisticMove ==
  /\ lastEvent.op = "loadReturn"
  /\ activeId \in DOMAIN tasks \cap DOMAIN dbTasks
  /\ over \in ColumnIds
  /\ tasks[activeId].columnId /= over
  /\ tasks[activeId].columnId = dbTasks[activeId].columnId

\* C21: a load that a mutation starts is started in the step in which the
\* write of that mutation completes, by success, or for a drop also by
\* failure; no load is in flight together with the write of its mutation
WriteBeforeRead ==
  [][/\ \A l \in loads', w \in writes' : l.id /= w.id
     /\ \A l \in loads' :
          (l.origin /= "select" /\ \A m \in loads : m.id /= l.id)
          => \E w \in writes :
               /\ w.id = l.id /\ Completed(w)
               /\ \/ lastEvent'.op = "writeOk"
                  \/ lastEvent'.op = "writeFail" /\ w.kind = "move"]_vars

\* C21 witness: the save of the drawer has been written to the store and its
\* load has just been started, while the write of a drop is still awaited
LoadStartedAfterSave ==
  /\ lastEvent.op = "writeOk" /\ lastEvent.origin = "save"
  /\ \E l \in loads : l.origin = "save" /\ l.phase = "sent"
  /\ \E w \in writes : w.kind = "move"
  /\ lastEvent.task \in DOMAIN dbTasks
  /\ dbTasks[lastEvent.task].updatedAt = 1

DropPersistsTarget ==
  [][(activeId /= None /\ activeId' = None /\ activeId \in DOMAIN tasks
        /\ over /= None /\ OverColumn(over) /= None)
       => \A w \in writes' :
            (\A v \in writes : v.id /= w.id)
              => w.columnId = OverColumn(over)]_vars

\* C24: when a load has returned and no load is in flight any more, the
\* cached columns and tasks are of the board that is selected
CacheOfSelectedBoard ==
  [][\A l \in loads :
       (Ended(l) /\ lastEvent'.op = "loadReturn" /\ loads' = {})
       => /\ \A i \in 1..Len(columns') : columns'[i].boardId = currentBoard'
          /\ \A t \in DOMAIN tasks' : tasks'[t].boardId = currentBoard']_vars

\* C25: the client creates at most one board for the user, with at most
\* three columns
ProvisionedOnce == Len(dbBoards) <= 1 /\ Cardinality(dbColumns) <= 3

\* the store has the three default columns of board b
ThreeColumns(b) ==
  LET cols == {c \in dbColumns : c.boardId = b} IN
    Cardinality(cols) = 3 /\ {c.position : c \in cols} = {0, 1, 2}

\* C26: when an initialisation has completed and none is in flight, every
\* board of the user has its three columns at positions 0, 1 and 2
ProvisioningAtomic ==
  (inits = {} /\ lastEvent.op = "initDone")
    => \A k \in 1..Len(dbBoards) : ThreeColumns(dbBoards[k])

\* the fields of a task the drawer shows
Shown(task) ==
  [title |-> task.title, tags |-> task.tags, columnId |-> task.columnId]

\* the write issued by the step, if any
IssuedWrites == {w \in writes' : \A v \in writes : v.id /= w.id}

\* C27: Save pressed right after Edit, with no field changed in between,
\* writes the title and the tags of the task the drawer shows, to that task
NoChangeSave ==
  [][(lastEvent.op = "edit" /\ lastEvent'.op = "save"
        /\ nextReq' = nextReq + 1)
       => \A w \in IssuedWrites :
            /\ w.task = selectedTask.id
            /\ w.title = selectedTask.task.title
            /\ w.tags = JSONstringify(selectedTask.task.tags)]_vars

\* C28: when a task is selected and no load is in flight, the task the
\* drawer shows has the title, tags and column of the cached task of its id
DrawerShowsCache ==
  (selectedTask /= NoTask /\ loads = {})
    => /\ selectedTask.id \in DOMAIN tasks
       /\ Shown(selectedTask.task) = Shown(tasks[selectedTask.id])

\* C29: the create issued by the submit of the Quick Add form carries the
\* tags the form holds and the column selected in the form
QuickAddPersistsForm ==
  [][(form.open /\ ~form'.open /\ nextTask' = nextTask + 1)
       => \A w \in IssuedWrites :
            /\ w.tags = JSONstringify(form.tags)
            /\ form.selectedColumn /= ""
                 => w.columnId = form.selectedColumn]_vars

\* C30: no create or save in flight carries a title that is empty or only
\* whitespace, and no stored task has one
NoBlankTitles ==
  /\ \A w \in writes : w.kind \in {"create", "save"} => Trim(w.title) /= ""
  /\ \A t \in DOMAIN dbTasks : Trim(dbTasks[t].title) /= ""

====
